---- MODULE Spec2Model ----
(***************************************************************************)
(* Model of src/src/azvcutter/azvcutter_lib.py: the four public operations *)
(* apply_video_effect, cut_video, extract_sub_video and merge_videos.      *)
(* One behaviour is one call made by a client in a fresh process.  The     *)
(* external tool ffmpeg is an environment step: each invocation ends with  *)
(* an exit code chosen nondeterministically.                               *)
(*                                                                         *)
(* Timestamps 'HH:MM:SS.SS' are instants 0..MaxT (the code only compares   *)
(* them for equality with '00:00:00.00' and 'inf'); 'inf' is INF.          *)
(* Paths are sequences of one-character strings; a suffix such as          *)
(* "_output" is the two tokens "_" , "output".                             *)
(***************************************************************************)
EXTENDS Integers, Sequences, FiniteSets, TLC

\* ------------------------------------------------------------- bounds ----
MaxT == 2
MaxRanges == 2
MaxPathLen == 2
MaxFiles == 2

\* ---------------------------------------------------------- constants ----
\* the sentinel 'inf' (end of video) and the timestamp '00:00:00.00'
INF == -1
ZERO == 0

Times == 0..MaxT
Ends == Times \cup {INF}
ExitCodes == {0, 1}
PathChars == {"v", ".", "/"}
InputNames == {<<"a">>, <<"b">>}
OutputNames == {<<"o">>}

\* all sequences over S of length lo..hi
SeqsOf(S, lo, hi) == UNION {[1..n -> S] : n \in lo..hi}

Paths == SeqsOf(PathChars, 1, MaxPathLen)
TimeRanges == Times \X Ends
CutoffLists == SeqsOf(TimeRanges, 0, MaxRanges)
FileLists == SeqsOf(InputNames, 0, MaxFiles)

\* the fixed mapping operation name -> ffmpeg filter expression
operation_definitions ==
    ("hflip" :> "hflip") @@ ("vflip" :> "vflip")
    @@ ("180rotate" :> "rotate=180*PI/180")
    @@ ("90clockwise" :> "rotate=90*PI/180")
    @@ ("90counterclk" :> "rotate=-90*PI/180")
    @@ ("scalehd" :> "scale=-1:1080") @@ ("scalesd" :> "scale=-1:480")
    @@ ("scalecustom" :> "scale={width}:{height}")
    @@ ("crop16x9" :> "crop=iw*16/9:ih*(16/9)*(iw/iw)")
    @@ ("crop4x3" :> "crop=iw*4/3:ih*(4/3)*(iw/iw)")
    @@ ("cropcustom" :> "crop={width}:{height}:{x}:{y}")
    @@ ("pad16x9" :> "pad=(iw*16/9):ih:(ow-iw)/2:(oh-ih)/2:color=black")
    @@ ("pad4x3" :> "pad=(iw*4/3):ih:(ow-iw)/2:(oh-ih)/2:color=black")
    @@ ("padcustom" :> "pad={width}:{height}:{x}:{y}:color={color}")
    @@ ("grayscale" :> "hue=s=0") @@ ("invert" :> "negate")
    @@ ("blur" :> "boxblur=2:2")

Operations == DOMAIN operation_definitions \cup {"sharpen"}

\* ------------------------------------------------------- file system ----
File(p) == [kind |-> "file", n |-> 0, path |-> p]
TmpDir == [kind |-> "tmp_dir", n |-> 0, path |-> <<>>]
SegmentFile(i) == [kind |-> "segment", n |-> i, path |-> <<>>]
ConcatFile == [kind |-> "concat", n |-> 0, path |-> <<>>]
ListFile == [kind |-> "list", n |-> 0, path |-> <<>>]

\* shutil.which('ffmpeg')
Which(onPath) == onPath

\* the exit of `with tempfile.TemporaryDirectory()`: the directory and
\* everything in it is removed
ExitTmpScopeLeak(f) == f
ExitTmpScope(f) == {e \in f : e.kind \notin {"tmp_dir", "segment", "concat"}}

\* finally: if os.path.exists(list_file): os.remove(list_file)
RemoveListFile(f) == f \ {ListFile}

\* subprocess.run(cmd, check=True): nonzero exit raises CalledProcessError
RunCheckedSwallow(exit) == "ok"
RunChecked(exit) == IF exit # 0 THEN "CalledProcessError" ELSE "ok"

\* ------------------------------------------------------ pure helpers ----
Max(S) == CHOOSE m \in S : \A x \in S : x <= m

\* str.rfind(ch), 1-based; 0 when ch does not occur
RFind(p, ch) == Max({i \in 1..Len(p) : p[i] = ch} \cup {0})

\* os.path.splitext (posixpath): the extension starts at the last dot of
\* the last path component; leading dots of that component are not one
SplitExt(p) ==
    LET sepIndex == RFind(p, "/")
        dotIndex == RFind(p, ".")
    IN IF dotIndex > sepIndex
          /\ \E k \in (sepIndex + 1)..(dotIndex - 1) : p[k] # "."
       THEN <<SubSeq(p, 1, dotIndex - 1), SubSeq(p, dotIndex, Len(p))>>
       ELSE <<p, <<>>>>

\* str.rsplit('.', 1)
RSplitDot(p) ==
    LET dotIndex == RFind(p, ".")
    IN IF dotIndex = 0
       THEN <<p>>
       ELSE <<SubSeq(p, 1, dotIndex - 1), SubSeq(p, dotIndex + 1, Len(p))>>

\* f"{path_without_extension}_{operation}{video_extension_with_dot}"
EffectOutputPath(p, operationName) ==
    SplitExt(p)[1] \o <<"_", operationName>> \o SplitExt(p)[2]

\* f"{filename}_sub{file_extension}"
SubOutputPath(p) == SplitExt(p)[1] \o <<"_", "sub">> \o SplitExt(p)[2]

\* filename, file_extension = video_path.rsplit('.', 1): unpacking fails
\* with ValueError when the path holds no '.'
CutUnpackFails(p) == Len(RSplitDot(p)) # 2

\* f"{filename}_output.{file_extension}"
CutOutputPath(p) ==
    RSplitDot(p)[1] \o <<"_", "output">> \o <<".">> \o RSplitDot(p)[2]

\* the for loop of the range inversion, from index i (1-based) on
RECURSIVE InvertLoop(_, _)
InvertLoop(c, i) ==
    IF i > Len(c) THEN <<>>
    ELSE (IF c[i][2] # INF
          THEN << <<c[i][2], IF i = Len(c) THEN INF ELSE c[i + 1][1]>> >>
          ELSE <<>>) \o InvertLoop(c, i + 1)

InvertRangesNoLead(c) == InvertLoop(c, 1)
InvertRangesAlwaysLead(c) == << <<ZERO, c[1][1]>> >> \o InvertLoop(c, 1)

\* keep_ranges computed from a non-empty cutoff_ranges
InvertRanges(c) ==
    (IF c[1][1] # ZERO THEN << <<ZERO, c[1][1]>> >> ELSE <<>>)
        \o InvertLoop(c, 1)

\* cutoff_ranges[0] raises IndexError on an empty list
InvertFails(c) == Len(c) = 0

\* `if operation not in operation_definitions` then `if not shutil.which`
EffectPrecheckSwapped(operationName, onPath) ==
    IF ~Which(onPath) THEN "RuntimeError"
    ELSE IF operationName \notin DOMAIN operation_definitions THEN "KeyError"
    ELSE "ok"
EffectPrecheck(operationName, onPath) ==
    IF operationName \notin DOMAIN operation_definitions THEN "KeyError"
    ELSE IF ~Which(onPath) THEN "RuntimeError"
    ELSE "ok"

\* `if not video_files`
NoVideoFilesNever(files) == FALSE
NoVideoFiles(files) == Len(files) = 0

\* all(os.path.isfile(file) for file in video_files)
AllAreFiles(files, f) == \A k \in 1..Len(files) : File(files[k]) \in f

\* one ffmpeg command line with its exit status
Invocation(kind, src, ss, to, manifest, out, exit) ==
    [kind |-> kind, src |-> src, ss |-> ss, to |-> to,
     manifest |-> manifest, out |-> out, exit |-> exit]

\* -------------------------------------------------------------- state ----
VARIABLES
    pc,             \* "idle" | "segments" | "done"
    op,             \* the public operation called
    ffmpeg_on_path, \* is ffmpeg on the search path
    fs,             \* files and directories that exist
    created,        \* history: everything the call created or wrote
    invocations,    \* history: ffmpeg invocations of the call, in order
    printed,        \* history: messages printed
    result,         \* "none" | "ok" | "returned" | the exception raised
    video_path,
    operation,
    cutoff_ranges,
    keep_ranges,
    segment_files,
    output_path,
    video_files

vars == <<pc, op, ffmpeg_on_path, fs, created, invocations, printed, result,
          video_path, operation, cutoff_ranges, keep_ranges, segment_files,
          output_path, video_files>>

Init ==
    /\ pc = "idle"
    /\ op = "none"
    /\ ffmpeg_on_path \in BOOLEAN
    /\ fs \in {{File(p) : p \in S} : S \in SUBSET InputNames}
    /\ created = {}
    /\ invocations = <<>>
    /\ printed = <<>>
    /\ result = "none"
    /\ video_path = <<>>
    /\ operation = "none"
    /\ cutoff_ranges = <<>>
    /\ keep_ranges = <<>>
    /\ segment_files = <<>>
    /\ output_path = <<>>
    /\ video_files = <<>>

\* ------------------------------------------------- apply_video_effect ----
\* subprocess.run(ffmpeg_command, shell=True, check=True): what the shell
\* runs for a list argument depends on the platform, so the exit code is
\* any of ExitCodes
apply_video_effect ==
    /\ pc = "idle"
    /\ \E p \in Paths, o \in Operations, exit \in ExitCodes, wrote \in BOOLEAN :
        LET pre == EffectPrecheck(o, ffmpeg_on_path)
            out == File(EffectOutputPath(p, o))
        IN /\ exit = 0 => wrote
           /\ pre # "ok" => (exit = 0 /\ wrote)
           /\ op' = "apply_video_effect"
           /\ video_path' = p
           /\ operation' = o
           /\ pc' = "done"
           /\ IF pre # "ok"
              THEN /\ result' = pre
                   /\ UNCHANGED <<fs, created, invocations, printed, output_path>>
              ELSE /\ output_path' = out.path
                   /\ invocations' = <<Invocation("effect", p, INF, INF, <<>>, out, exit)>>
                   /\ fs' = IF wrote THEN fs \cup {out} ELSE fs
                   /\ created' = IF wrote THEN {out} ELSE {}
                   /\ result' = RunChecked(exit)
                   /\ printed' = IF exit # 0 THEN <<"cmd", "ffmpeg_failed">>
                                 ELSE <<"cmd">>
    /\ UNCHANGED <<ffmpeg_on_path, cutoff_ranges, keep_ranges, segment_files,
                   video_files>>

\* ---------------------------------------------------------- cut_video ----
\* lines 108-120: the ffmpeg check, the temporary directory, the inversion
cut_video ==
    /\ pc = "idle"
    /\ \E p \in Paths, c \in CutoffLists :
        /\ op' = "cut_video"
        /\ video_path' = p
        /\ cutoff_ranges' = c
        /\ IF ~Which(ffmpeg_on_path)
           THEN /\ result' = "RuntimeError"
                /\ pc' = "done"
                /\ UNCHANGED <<fs, created, keep_ranges>>
           ELSE IF InvertFails(c)
           THEN /\ result' = "IndexError"
                /\ pc' = "done"
                /\ created' = {TmpDir}
                /\ fs' = ExitTmpScope(fs \cup {TmpDir})
                /\ UNCHANGED keep_ranges
           ELSE /\ keep_ranges' = InvertRanges(c)
                /\ created' = {TmpDir}
                /\ fs' = fs \cup {TmpDir}
                /\ pc' = "segments"
                /\ UNCHANGED result
    /\ UNCHANGED <<ffmpeg_on_path, invocations, printed, operation,
                   segment_files, output_path, video_files>>

\* lines 124-137: one pass of the segment loop
cut_video_segment ==
    /\ pc = "segments"
    /\ Len(segment_files) < Len(keep_ranges)
    /\ \E exit \in ExitCodes, wrote \in BOOLEAN :
        LET i == Len(segment_files)
            range == keep_ranges[i + 1]
            out == SegmentFile(i)
        IN /\ exit = 0 => wrote
           /\ invocations' = Append(invocations,
                  Invocation("segment", video_path, range[1], range[2], <<>>, out, exit))
           /\ created' = IF wrote THEN created \cup {out} ELSE created
           /\ IF RunChecked(exit) # "ok"
              THEN /\ result' = RunChecked(exit)
                   /\ pc' = "done"
                   /\ fs' = ExitTmpScope(IF wrote THEN fs \cup {out} ELSE fs)
                   /\ UNCHANGED segment_files
              ELSE /\ segment_files' = Append(segment_files, out)
                   /\ fs' = IF wrote THEN fs \cup {out} ELSE fs
                   /\ UNCHANGED <<result, pc>>
    /\ UNCHANGED <<op, ffmpeg_on_path, printed, video_path, operation,
                   cutoff_ranges, keep_ranges, output_path, video_files>>

\* lines 139-157: the manifest, the output path, the concat invocation
cut_video_concat ==
    /\ pc = "segments"
    /\ Len(segment_files) = Len(keep_ranges)
    /\ pc' = "done"
    /\ \E exit \in ExitCodes, wrote \in BOOLEAN :
        /\ exit = 0 => wrote
        /\ CutUnpackFails(video_path) => (exit = 0 /\ wrote)
        /\ IF CutUnpackFails(video_path)
           THEN /\ result' = "ValueError"
                /\ created' = created \cup {ConcatFile}
                /\ fs' = ExitTmpScope(fs \cup {ConcatFile})
                /\ UNCHANGED <<invocations, printed, output_path>>
           ELSE LET out == File(CutOutputPath(video_path))
                IN /\ output_path' = out.path
                   /\ invocations' = Append(invocations,
                          Invocation("concat", <<>>, INF, INF, segment_files, out, exit))
                   /\ created' = created \cup {ConcatFile}
                                    \cup (IF wrote THEN {out} ELSE {})
                   /\ fs' = ExitTmpScope(fs \cup {ConcatFile}
                                    \cup (IF wrote THEN {out} ELSE {}))
                   /\ result' = RunChecked(exit)
                   /\ printed' = IF RunChecked(exit) = "ok"
                                 THEN Append(printed, "saved") ELSE printed
    /\ UNCHANGED <<op, ffmpeg_on_path, video_path, operation, cutoff_ranges,
                   keep_ranges, segment_files, video_files>>

\* -------------------------------------------------- extract_sub_video ----
extract_sub_video ==
    /\ pc = "idle"
    /\ \E p \in Paths, start \in Times, end \in Ends,
          exit \in ExitCodes, wrote \in BOOLEAN :
        LET out == File(SubOutputPath(p))
        IN /\ exit = 0 => wrote
           /\ ~Which(ffmpeg_on_path) => (exit = 0 /\ wrote)
           /\ op' = "extract_sub_video"
           /\ video_path' = p
           /\ pc' = "done"
           /\ IF ~Which(ffmpeg_on_path)
              THEN /\ result' = "RuntimeError"
                   /\ UNCHANGED <<fs, created, invocations, printed, output_path>>
              ELSE /\ output_path' = out.path
                   /\ invocations' = <<Invocation("sub", p, start, end, <<>>, out, exit)>>
                   /\ fs' = IF wrote THEN fs \cup {out} ELSE fs
                   /\ created' = IF wrote THEN {out} ELSE {}
                   /\ result' = RunChecked(exit)
                   /\ printed' = IF RunChecked(exit) = "ok" THEN <<"saved">> ELSE <<>>
    /\ UNCHANGED <<ffmpeg_on_path, operation, cutoff_ranges, keep_ranges,
                   segment_files, video_files>>

\* ------------------------------------------------------- merge_videos ----
merge_videos ==
    /\ pc = "idle"
    /\ \E files \in FileLists, o \in OutputNames, concate_only \in BOOLEAN,
          exit \in ExitCodes, wrote \in BOOLEAN :
        LET out == File(o)
            runs == ~NoVideoFiles(files) /\ AllAreFiles(files, fs)
                        /\ Which(ffmpeg_on_path)
        IN /\ exit = 0 => wrote
           /\ ~runs => (exit = 0 /\ wrote /\ concate_only)
           /\ op' = "merge_videos"
           /\ video_files' = files
           /\ pc' = "done"
           /\ IF NoVideoFiles(files)
              THEN /\ printed' = <<"no_files">>
                   /\ result' = "returned"
                   /\ UNCHANGED <<fs, created, invocations, output_path>>
              ELSE IF ~AllAreFiles(files, fs)
              THEN /\ printed' = <<"missing_files">>
                   /\ result' = "returned"
                   /\ UNCHANGED <<fs, created, invocations, output_path>>
              ELSE IF ~Which(ffmpeg_on_path)
              \* no check of the search path: the manifest is written, then
              \* subprocess.run raises FileNotFoundError, which `except
              \* CalledProcessError` does not catch; finally still runs
              THEN /\ created' = {ListFile}
                   /\ fs' = RemoveListFile(fs \cup {ListFile})
                   /\ result' = "FileNotFoundError"
                   /\ UNCHANGED <<invocations, printed, output_path>>
              ELSE /\ output_path' = o
                   /\ invocations' = <<Invocation(
                          IF concate_only THEN "merge_copy" ELSE "merge_encode",
                          <<>>, INF, INF, files, out, exit)>>
                   /\ created' = {ListFile} \cup (IF wrote THEN {out} ELSE {})
                   /\ fs' = RemoveListFile(fs \cup {ListFile}
                                \cup (IF wrote THEN {out} ELSE {}))
                   \* except CalledProcessError: print, no re-raise
                   /\ result' = "returned"
                   /\ printed' = IF exit = 0 THEN <<"merged">>
                                 ELSE <<"error_occurred">>
    /\ UNCHANGED <<ffmpeg_on_path, video_path, operation, cutoff_ranges,
                   keep_ranges, segment_files>>

Next ==
    \/ apply_video_effect
    \/ cut_video
    \/ cut_video_segment
    \/ cut_video_concat
    \/ extract_sub_video
    \/ merge_videos

Spec == Init /\ [][Next]_vars

\* ------------------------------------------------------------- claims ----
\* the range inversion of a cut_video call has run (ffmpeg was found and
\* cutoff_ranges was not empty)
RangesInverted ==
    /\ op = "cut_video"
    /\ pc \in {"segments", "done"}
    /\ result \notin {"RuntimeError", "IndexError"}

\* non-empty, start <= end in each range, sorted by start, each range ends
\* no later than the next one starts, 'inf' only as the end of the last
ValidCutoffList(c) ==
    /\ Len(c) > 0
    /\ \A i \in 1..Len(c) : c[i][2] = INF \/ c[i][1] <= c[i][2]
    /\ \A i \in 1..(Len(c) - 1) :
        /\ c[i][1] <= c[i + 1][1]
        /\ c[i][2] # INF
        /\ c[i][2] <= c[i + 1][1]

\* instant t lies in the half-open interval [start, end) of range r
InRange(t, r) == r[1] <= t /\ (r[2] = INF \/ t < r[2])
Covered(t, ranges) == \E i \in 1..Len(ranges) : InRange(t, ranges[i])

\* the instants of the video, one of them after every timestamp
Instants == 0..(MaxT + 1)

\* some invocation of the call exited nonzero
SomeInvocationFailed == \E k \in 1..Len(invocations) : invocations[k].exit # 0

\* C1: for a valid (non-empty, sorted, non-overlapping) cutoff list the
\* keep ranges cover exactly the instants no cutoff range covers.
C1_KeepIsComplement ==
    (RangesInverted /\ ValidCutoffList(cutoff_ranges)) =>
        \A t \in Instants :
            Covered(t, keep_ranges) <=> ~Covered(t, cutoff_ranges)

C1_Witness ==
    /\ RangesInverted
    /\ ValidCutoffList(cutoff_ranges)
    /\ Len(cutoff_ranges) = 2
    /\ cutoff_ranges[1][1] # ZERO
    /\ cutoff_ranges[1][1] < cutoff_ranges[1][2]
    /\ Len(keep_ranges) = 3

\* C2: when the first cutoff range does not start at 00:00:00.00 the first
\* keep range is (00:00:00.00, cutoff_ranges[0][0]); a single such range
\* (a, b) with a concrete end yields exactly [(00:00:00.00, a), (b, inf)].
C2_LeadingKeepRange ==
    (RangesInverted /\ cutoff_ranges[1][1] # ZERO) =>
        /\ Len(keep_ranges) >= 1
        /\ keep_ranges[1] = <<ZERO, cutoff_ranges[1][1]>>
        /\ (Len(cutoff_ranges) = 1 /\ cutoff_ranges[1][2] # INF) =>
              keep_ranges = << <<ZERO, cutoff_ranges[1][1]>>,
                               <<cutoff_ranges[1][2], INF>> >>

C2_Witness ==
    /\ RangesInverted
    /\ cutoff_ranges = << <<1, 2>> >>
    /\ keep_ranges = << <<ZERO, 1>>, <<2, INF>> >>

\* C3: a single cutoff range starting at 00:00:00.00 with a concrete end
\* yields exactly one keep range, (cutoff.end, inf).
C3_SingleRangeFromZero ==
    (/\ RangesInverted
     /\ Len(cutoff_ranges) = 1
     /\ cutoff_ranges[1][1] = ZERO
     /\ cutoff_ranges[1][2] # INF) =>
        keep_ranges = << <<cutoff_ranges[1][2], INF>> >>

C3_Witness ==
    /\ RangesInverted
    /\ pc = "done"
    /\ cutoff_ranges = << <<ZERO, 1>> >>
    /\ Len(keep_ranges) = 1

\* C4: apply_video_effect with an operation name outside the mapping is
\* rejected with KeyError and invokes no subprocess, with or without ffmpeg.
C4_UnsupportedRejected ==
    (op = "apply_video_effect"
        /\ operation \notin DOMAIN operation_definitions) =>
        /\ result = "KeyError"
        /\ invocations = <<>>
        /\ created = {}

C4_Witness ==
    /\ op = "apply_video_effect"
    /\ operation = "sharpen"
    /\ ~ffmpeg_on_path
    /\ result = "KeyError"

\* C5: without ffmpeg on the search path no operation creates or writes
\* a file or starts a subprocess.
C5_NoWorkWithoutFfmpeg ==
    ~ffmpeg_on_path => (created = {} /\ invocations = <<>>)

\* C6 as stated: after a nonzero exit every operation ends by raising.
C6_FailureAlwaysRaised ==
    (pc = "done" /\ SomeInvocationFailed) => result = "CalledProcessError"

\* C6 as amended: after a nonzero exit apply_video_effect, cut_video and
\* extract_sub_video end by raising CalledProcessError; merge_videos prints
\* a diagnostic and returns normally.
C6_FailureRaisedExceptMerge ==
    (pc = "done" /\ SomeInvocationFailed) =>
        /\ op # "merge_videos" => result = "CalledProcessError"
        /\ op = "merge_videos" =>
              (result = "returned" /\ printed = <<"error_occurred">>)

C6_Witness ==
    /\ pc = "done"
    /\ op = "merge_videos"
    /\ SomeInvocationFailed
    /\ result = "returned"

\* C7: merge_videos with an empty file list reports the no-op and returns
\* without invoking ffmpeg and without touching the manifest or the output.
C7_EmptyMergeIsNoOp ==
    (op = "merge_videos" /\ video_files = <<>>) =>
        /\ result = "returned"
        /\ printed = <<"no_files">>
        /\ invocations = <<>>
        /\ created = {}
        /\ \A e \in fs : e.kind = "file" /\ e.path \in InputNames

C7_Witness ==
    /\ op = "merge_videos"
    /\ pc = "done"
    /\ video_files = <<>>
    /\ ffmpeg_on_path
    /\ fs = {File(<<"a">>), File(<<"b">>)}

\* a cut_video call got as far as deriving its output path
CutDerivedOutputPath ==
    /\ op = "cut_video"
    /\ pc = "done"
    /\ \/ result = "ValueError"
       \/ /\ Len(invocations) > 0
          /\ invocations[Len(invocations)].kind = "concat"

\* C8: every operation's output path is the source path with the suffix
\* put before the extension of the file name, the extension kept; cut_video
\* derives the same shape as the other two operations.
C8_SuffixBeforeExtension ==
    /\ (op = "apply_video_effect" /\ invocations # <<>>) =>
          output_path = SplitExt(video_path)[1] \o <<"_", operation>>
                            \o SplitExt(video_path)[2]
    /\ (op = "extract_sub_video" /\ invocations # <<>>) =>
          output_path = SplitExt(video_path)[1] \o <<"_", "sub">>
                            \o SplitExt(video_path)[2]
    /\ CutDerivedOutputPath =>
          /\ result # "ValueError"
          /\ output_path = SplitExt(video_path)[1] \o <<"_", "output">>
                            \o SplitExt(video_path)[2]

\* C9: a finished cut_video call made one segment invocation per keep
\* range, in order, then exactly one concat invocation listing the segments
\* in that order; a nonzero exit is the last invocation and is raised.
C9_InvocationSequence ==
    (RangesInverted /\ pc = "done") =>
        LET n == Len(invocations)
            m == Len(keep_ranges)
        IN /\ n <= m + 1
           /\ \A k \in 1..n : k <= m =>
                /\ invocations[k].kind = "segment"
                /\ invocations[k].ss = keep_ranges[k][1]
                /\ invocations[k].to = keep_ranges[k][2]
                /\ invocations[k].out = SegmentFile(k - 1)
           /\ \A k \in 1..(n - 1) : invocations[k].exit = 0
           /\ SomeInvocationFailed => result = "CalledProcessError"
           /\ ~SomeInvocationFailed =>
                /\ n = m + 1
                /\ invocations[n].kind = "concat"
                /\ invocations[n].manifest = [k \in 1..m |-> SegmentFile(k - 1)]

\* C10: once a cut_video call has ended, however it ended, its temporary
\* directory, segment files and concat manifest are gone; once a
\* merge_videos call that wrote video_list.txt has ended, that file is gone.
C10_ScopedFilesReleased ==
    /\ (op = "cut_video" /\ pc = "done") =>
          \A e \in fs : e.kind \notin {"tmp_dir", "segment", "concat"}
    /\ (op = "merge_videos" /\ pc = "done") => ListFile \notin fs

C10_Witness ==
    /\ op = "cut_video"
    /\ pc = "done"
    /\ result = "CalledProcessError"
    /\ SegmentFile(1) \in created
    /\ TmpDir \in created

====
